---- MODULE Spec2Model ----
(***************************************************************************)
(* Secure file sharing and access-chain tracking of file_tracker.py:       *)
(* SecureShareDialog.share_file (encrypt, stage, upload, geolocate, write  *)
(* to the 'secure_files' collection), FileTrackerWindow (upload_file,      *)
(* load_file_access_records, delete_selected_record), PDFEncryption and    *)
(* SecurePDFViewer; and the chat of ai_chat.py and simple_chat.py          *)
(* (AIChatWidget, SimpleChat).                                             *)
(*                                                                         *)
(* Each element of Windows is one running application instance with its    *)
(* FileTrackerWindow.  The instances share the document database (ledger)  *)
(* and the blob store.  A handler blocks its own event loop, so within one *)
(* instance handlers never overlap; instances interleave at their network  *)
(* calls (upload, geolocation lookup, ledger add, ledger query).           *)
(*                                                                         *)
(* Specifications:                                                         *)
(*   Spec        one instance: upload_file, share_file, the load           *)
(*   SpecLedger  the same with delete_selected_record                      *)
(*   SpecNames   two instances at once, up to the start of their uploads   *)
(*   SpecRetry   one dialog in which Share is pressed again and again      *)
(*   SpecPair    two instances at once, share_file to its end, the load    *)
(*   SpecCipher  PDFEncryption on its own: encrypt_pdf, decrypt_pdf        *)
(*   SpecViewer  SecurePDFViewer on its own                                *)
(*   SpecChat    AIChatWidget with its SimpleChat                          *)
(***************************************************************************)
EXTENDS Integers, Sequences, FiniteSets, TLC

\* ------------------------------------------------------------------ bounds
MaxShares == 1      \* share_file invocations that get past the recipient check
MaxDeletes == 1     \* confirmed deletions of a table row
FirstTime == 9      \* the clock's reading (seconds) in the initial state
ClockSpan == 1      \* how many seconds the clock may advance
MaxPlainLen == 2    \* bytes of a plaintext given to the cipher on its own
MaxKey == 2         \* keys get_random_bytes may draw there
MaxNonceSeed == 1   \* nonces AES.new may draw there (0..MaxNonceSeed)
MaxPages == 3       \* pages of the document a SecurePDFViewer shows
MaxViewerEvents == 5    \* clicks and resize events of one SecurePDFViewer
MaxAsks == 2        \* messages sent to the chatbot of an AIChatWidget
MaxSaves == 1       \* chat histories saved
MaxLoads == 1       \* chat histories loaded

MaxTime == FirstTime + ClockSpan

\* ------------------------------------------------------------- value sets
Windows == {1, 2}
Users == {"alice", "bob"}
\* The file the user picks: the one shared before, so that a second share of
\* the same file, in the same second, is among the cases.
Files == {"report.pdf"}
None == "None"

\* What the user may have typed into recipient_input.
RecipientTexts == {<<>>, <<" ">>, <<"c">>, <<" ", "c", " ">>}
Whitespace == {" "}

\* The items of access_combo.
AccessLevels == {"View Only", "View and Share"}

\* What os.path.exists / os.path.isfile / open() find at file_path.
FileStates == {"ok", "missing", "notfile", "unreadable"}

\* Bodies that https://ipapi.co/json/ may answer with, as dictionaries.
GeoBodies ==
    { [error |-> "RateLimited"],
      [city |-> "Paris", country_name |-> "France"] }

\* Outcomes of requests.get(...) followed by response.json().
GeoResponses ==
    { [kind |-> "neterr"], [kind |-> "badjson"] }
        \cup { [kind |-> "json", body |-> b] : b \in GeoBodies }

\* The lookup service is in one condition for a whole session: unreachable or
\* answering garbage ("down"), refusing ("limited"), or answering ("up").
GeoConditions == {"down", "limited", "up"}
GeoAnswers(cond) ==
    CASE cond = "down" -> { [kind |-> "neterr"], [kind |-> "badjson"] }
      [] cond = "limited" ->
            { [kind |-> "json", body |-> [error |-> "RateLimited"]] }
      [] cond = "up" ->
            { [kind |-> "json",
               body |-> [city |-> "Paris", country_name |-> "France"]] }

\* ---------------------------------------------------------------- helpers
\* dict.get(k, default)
Get(d, k, default) == IF k \in DOMAIN d THEN d[k] ELSE default

\* str.strip(): leading and trailing whitespace removed.
RECURSIVE LStrip(_)
LStrip(s) ==
    IF s # <<>> /\ Head(s) \in Whitespace THEN LStrip(Tail(s)) ELSE s

RECURSIVE RStrip(_)
RStrip(s) ==
    IF s # <<>> /\ s[Len(s)] \in Whitespace
    THEN RStrip(SubSeq(s, 1, Len(s) - 1))
    ELSE s

StripNothing(s) == s

Strip(s) == RStrip(LStrip(s))

\* datetime.now().strftime(...): fixed-width, zero-padded decimal fields.
FormatTime(t) == <<t \div 10, t % 10>>

\* Python's str comparison: lexicographic, a proper prefix is smaller.
RECURSIVE StrLess(_, _)
StrLess(a, b) ==
    IF b = <<>> THEN FALSE
    ELSE IF a = <<>> THEN TRUE
    ELSE IF Head(a) # Head(b) THEN Head(a) < Head(b)
    ELSE StrLess(Tail(a), Tail(b))

Reverse(s) == [i \in 1..Len(s) |-> s[Len(s) + 1 - i]]

\* Insert x into the ascending list s behind every element not greater than it.
RECURSIVE InsertAsc(_, _)
InsertAsc(x, s) ==
    IF s = <<>> THEN <<x>>
    ELSE IF StrLess(x.time, Head(s).time) THEN <<x>> \o s
    ELSE <<Head(s)>> \o InsertAsc(x, Tail(s))

\* A stable ascending sort on the 'time' key.
RECURSIVE StableSortAsc(_)
StableSortAsc(s) ==
    IF s = <<>> THEN <<>>
    ELSE InsertAsc(s[Len(s)], StableSortAsc(SubSeq(s, 1, Len(s) - 1)))

SortNoPreReverse(s) == Reverse(StableSortAsc(s))

\* list.sort(key=time, reverse=True): the list is reversed, sorted stably
\* ascending and reversed again, so equal keys keep their original order.
SortNewestFirst(s) == Reverse(StableSortAsc(Reverse(s)))

\* ----------------------------------------------------------- PDFEncryption
\* decrypt_pdf takes the first 16 bytes as the nonce and the next 16 as the
\* tag: the lengths AES.new(key, AES.MODE_EAX) and encrypt_and_digest give.
NonceLen == 16
TagLen == 16

Bit(b, i) == (b \div 2^i) % 2

\* Bytewise exclusive or.
RECURSIVE XorFrom(_, _, _)
XorFrom(a, b, i) ==
    IF i > 7 THEN 0
    ELSE ((Bit(a, i) + Bit(b, i)) % 2) * 2^i + XorFrom(a, b, i + 1)

Xor(a, b) == XorFrom(a, b, 0)

RECURSIVE SumOf(_)
SumOf(bytes) == IF bytes = <<>> THEN 0 ELSE Head(bytes) + SumOf(Tail(bytes))

\* The cipher's key stream (AES in counter mode under key, started from the
\* nonce): a byte fixed by the key, the nonce and the position.
KeystreamByte(key, nonce, i) ==
    (SumOf(key) * 31 + SumOf(nonce) * 17 + i * 7 + 11) % 256

Crypt(data, key, nonce) ==
    [i \in 1..Len(data) |-> Xor(data[i], KeystreamByte(key, nonce, i))]

\* The EAX tag over nonce and ciphertext under key: TagLen bytes of a digest
\* that differs whenever key, nonce or ciphertext differ.
Mac(key, nonce, ciphertext) ==
    [i \in 1..TagLen |-> <<i, key, nonce, ciphertext>>]

\* get_random_bytes(16), one fresh value per encryption run.
KeyBytes(key) == <<key>>

\* cipher.nonce: the random nonce AES.new draws.
NonceBytes(seed) == [i \in 1..NonceLen |-> (seed * 16 + i) % 256]

EncryptPdfTagOverPlain(pdf_data, key, nonce) ==
    [nonce |-> nonce,
     ciphertext |-> Crypt(pdf_data, key, nonce),
     tag |-> Mac(key, nonce, pdf_data),
     key |-> key]

\* PDFEncryption.encrypt_pdf on data read from the file, with the key and the
\* nonce it drew.
EncryptPdf(pdf_data, key, nonce) ==
    [nonce |-> nonce,
     ciphertext |-> Crypt(pdf_data, key, nonce),
     tag |-> Mac(key, nonce, Crypt(pdf_data, key, nonce)),
     key |-> key]

\* encryption_result['nonce'] + ['tag'] + ['ciphertext'] (line 222)
Serialize(encryption_result) ==
    encryption_result.nonce \o encryption_result.tag
        \o encryption_result.ciphertext

\* s[lo:hi] and s[lo:] of Python, for 0 <= lo <= hi.
Slice(s, lo, hi) ==
    SubSeq(s, lo + 1, IF hi < Len(s) THEN hi ELSE Len(s))
SliceFrom(s, lo) == SubSeq(s, lo + 1, Len(s))

DecryptPdfUnverified(encrypted_data, key) ==
    LET nonce == Slice(encrypted_data, 0, NonceLen)
        ciphertext == SliceFrom(encrypted_data, NonceLen + TagLen)
    IN [ok |-> TRUE, data |-> Crypt(ciphertext, key, nonce)]

\* PDFEncryption.decrypt_pdf: the buffer is split, the tag verified
\* (decrypt_and_verify raises ValueError on a mismatch, AES.new on an empty
\* nonce), and whatever is raised becomes Exception("Decryption failed: ...").
DecryptPdf(encrypted_data, key) ==
    LET nonce == Slice(encrypted_data, 0, NonceLen)
        tag == Slice(encrypted_data, NonceLen, NonceLen + TagLen)
        ciphertext == SliceFrom(encrypted_data, NonceLen + TagLen)
    IN IF nonce = <<>> \/ Len(tag) # TagLen
          \/ tag # Mac(key, nonce, ciphertext)
       THEN [ok |-> FALSE, error |-> "Decryption failed"]
       ELSE [ok |-> TRUE, data |-> Crypt(ciphertext, key, nonce)]

\* The bytes of the PDF files on disk.
FileBytes(path) ==
    IF path[Len(path)] = "report.pdf" THEN <<37, 80, 68>> ELSE <<37, 80>>

\* ------------------------------------------------------------------ state
VARIABLES
    ledger,     \* the 'secure_files' collection, in the order a query returns it
    blobs,      \* the blob store: the objects uploaded so far
    tmpfiles,   \* staging files that exist, named by the invocation that made them
    now,        \* the wall clock, in seconds, as last read by datetime.now()
    geo_service, \* the condition of the lookup service during this session
    shares,     \* invocations of share_file that passed the recipient check
    deletes,    \* confirmed deletions of a table row
    user_id,    \* user_id[w]: the user of instance w
    db,         \* db[w]: firebase_config.db of instance w is usable
    cloudinary_config,  \* cloudinary_config[w]: the storage configuration was found
    pc,         \* pc[w]: where instance w's event loop is
    dlg,        \* dlg[w]: the fields of the open SecureShareDialog
    loc,        \* loc[w]: the locals of the running share_file
    out,        \* out[w]: what the last share_file call of the dialog did and reported
    rows,       \* rows[w]: the rows of files_table
    loadres,    \* loadres[w]: what the last load_file_access_records did
    crypt,      \* a run of PDFEncryption on its own: encrypt, store, decrypt
    viewer,     \* a SecurePDFViewer dialog: its page, its buttons, its label
    chat        \* an AIChatWidget: its chatbot's history, its bubbles, the files

tracker == <<ledger, blobs, tmpfiles, now, geo_service, shares, deletes, user_id,
             db, cloudinary_config, pc, dlg, loc, out, rows, loadres>>

vars == <<tracker, crypt, viewer, chat>>

Min(a, b) == IF a < b THEN a ELSE b

\* The invocations of share_file followed: MaxShares, and one more for each
\* running instance after the first.
ShareBudget ==
    MaxShares + Cardinality({w \in Windows : pc[w] # "closed"}) - 1

\* What datetime.now() may read next: the last reading or any later second.
ClockReadings == now..MaxTime

NoCrypt == [pc |-> "idle"]
NoViewer == [pc |-> "closed"]
NoChat == [pc |-> "closed"]
NoDialog == [file_name |-> None, file_path |-> None]
NoLocals == [inv |-> 0]
NoInput == [file_name |-> None, text |-> <<>>, access_level |-> None]
NoOutcome ==
    [inv |-> 0, input |-> NoInput, before |-> <<>>, stages |-> <<>>,
     faults |-> {}, name |-> <<>>, locator |-> <<>>, geo |-> [kind |-> "none"],
     ret |-> "running", box |-> "none", msg |-> "", accepted |-> FALSE,
     prior |-> <<>>]

\* ------------------------------------------------- FileTrackerWindow.upload_file
PathOf(f) == <<"docs", f>>
\* os.path.basename
Basename(path) == path[Len(path)]

\* What upload_file's own checks say about the selected path.
UploadFileError(fs) ==
    CASE fs = "missing" -> "Selected file does not exist"
      [] fs = "notfile" -> "Selected path is not a file"
      [] fs = "unreadable" -> "Cannot read selected file"
      [] OTHER -> ""

\* upload_file up to dialog.exec(): the user picks a path (or cancels the file
\* dialog); the path is validated (a failure is a message box and nothing
\* else) and the share dialog opens.
OpenDialog(w) ==
    /\ pc[w] = "main"
    /\ \E picked \in BOOLEAN :
        IF ~picked
        THEN UNCHANGED <<pc, dlg>>
        ELSE \E f \in Files, fs \in FileStates :
            IF UploadFileError(fs) # ""
            THEN UNCHANGED <<pc, dlg>>
            ELSE /\ dlg' = [dlg EXCEPT ![w] =
                                [file_name |-> Basename(PathOf(f)),
                                 file_path |-> PathOf(f)]]
                 /\ pc' = [pc EXCEPT ![w] = "dialog"]
    /\ UNCHANGED <<crypt, viewer, chat, ledger, blobs, tmpfiles, now, shares, deletes, geo_service, user_id, db,
                   cloudinary_config, loc, out, rows, loadres>>

\* The Cancel button: reject() ends dialog.exec(); upload_file goes on to
\* refresh the table.
CancelDialog(w) ==
    /\ pc[w] = "dialog"
    /\ pc' = [pc EXCEPT ![w] = "reload"]
    /\ dlg' = [dlg EXCEPT ![w] = NoDialog]
    /\ out' = [out EXCEPT ![w] = [NoOutcome EXCEPT !.ret = "rejected"]]
    /\ UNCHANGED <<crypt, viewer, chat, ledger, blobs, tmpfiles, now, shares, deletes, geo_service, user_id, db,
                   cloudinary_config, loc, rows, loadres>>

\* ------------------------------------------------- SecureShareDialog.share_file
\* The successful invocations of share_file in earlier sessions, numbered from
\* 1, each by its user; this session's are numbered on from there.
EarlierUsers == <<"alice">>
EarlierShares == Len(EarlierUsers)

\* out[w] while a call runs: its number, what it was given, the ledger it
\* found, the stages it has entered and what the environment answered them.
Started(inv, file_name, text, access_level) ==
    [NoOutcome EXCEPT !.inv = inv,
                      !.input = [file_name |-> file_name, text |-> text,
                                 access_level |-> access_level],
                      !.before = ledger]

\* The calls of share_file that this dialog has seen return before the one
\* out[w] is about: o.prior, and o itself if o is of a call that got past the
\* recipient check.
Attempts(o) ==
    IF o.inv = 0 THEN o.prior
    ELSE Append(o.prior,
                [inv |-> o.inv, name |-> o.name, locator |-> o.locator,
                 failed |-> IF o.faults \cap {"upload_raises", "upload_no_url"} # {}
                            THEN "upload"
                            ELSE IF o.faults \cap {"db_missing", "write_raises"} # {}
                            THEN "ledger"
                            ELSE IF o.ret = "False" THEN "other" ELSE "no"])

Log(o, stage, faults) ==
    [o EXCEPT !.stages = @ \o <<stage>>, !.faults = @ \cup faults]

\* return False (line 348), whatever was raised.
ReturnValue(msg) == "False"

FailAndAccept(w, o, msg) ==
    /\ out' = [out EXCEPT ![w] =
                  [o EXCEPT !.ret = ReturnValue(msg), !.box = "critical",
                            !.msg = msg, !.accepted = TRUE]]
    /\ loc' = [loc EXCEPT ![w] = NoLocals]
    /\ pc' = [pc EXCEPT ![w] = "reload"]

\* The outer handler of share_file: the critical message box with str(e), and
\* False to the caller. The dialog stays open.
Fail(w, o, msg) ==
    /\ out' = [out EXCEPT ![w] =
                  [o EXCEPT !.ret = ReturnValue(msg), !.box = "critical",
                            !.msg = msg]]
    /\ loc' = [loc EXCEPT ![w] = NoLocals]
    /\ pc' = [pc EXCEPT ![w] = "dialog"]

\* The checks of share_file itself: os.path.exists and os.path.isfile.
ValidationError(fs) ==
    CASE fs = "missing" -> "File not found at path"
      [] fs = "notfile" -> "Invalid file path"
      [] OTHER -> ""

FileFaults(fs) == IF fs \in {"missing", "notfile"} THEN {fs} ELSE {}

\* PDFEncryption.encrypt_pdf opens and reads the file; it raises when it cannot.
EncryptRaises(fs) == fs = "unreadable"

ReadFaults(fs) == IF fs = "unreadable" THEN {fs} ELSE {}

\* PDFEncryption.encrypt_pdf under a fresh key, and nonce + tag + ciphertext.
EncryptedDataOfOtherRun(path, key) ==
    Serialize(EncryptPdf(FileBytes(path), KeyBytes(key + 1), NonceBytes(key)))

\* key numbers the encryption run: its key and its nonce are its own.
EncryptedData(path, key) ==
    Serialize(EncryptPdf(FileBytes(path), KeyBytes(key), NonceBytes(key)))

\* Lines 226-234: the configuration is missing, or cloudinary.config raises.
ConfigError(found, raises) ==
    IF ~found THEN "Cloudinary configuration not found or invalid"
    ELSE IF raises THEN "Failed to configure Cloudinary"
    ELSE ""

ConfigFaults(found, raises) ==
    IF ~found THEN {"config_missing"}
    ELSE IF raises THEN {"config_raises"}
    ELSE {}

\* base64.urlsafe_b64encode(os.urandom(8)): eight random bytes, taken to
\* differ from those of every other invocation.
TokenReused(inv) == 0

Token(inv) == inv

SecureFilenameNoToken(t, token, file_name) == <<FormatTime(t), file_name>>

\* f"{timestamp}_{unique_id}_{self.file_name}"
SecureFilename(t, token, file_name) == <<FormatTime(t), token, file_name>>

\* The with block of the staging file: the file is created (delete=False),
\* written, and only then is tmp_path bound.
StageOutcomes == {"ok", "create_fails", "write_fails"}
StagedFileExists(stg) == stg # "create_fails"
TmpPathBound(stg) == stg = "ok"
StageFaults(stg) == IF stg = "ok" THEN {} ELSE {stg}

\* finally: os.unlink(tmp_path), any exception of it caught and printed: an
\* unbound tmp_path raises a NameError there, and nothing is unlinked.
\* (os.unlink of a bound path is taken to succeed.)
AfterUnlink(files, path, bound) ==
    IF bound THEN files \ {path} ELSE files

\* share_file from the recipient check to the call of
\* cloudinary.uploader.upload, for a non-empty recipient.
Prepare(w, o0, recipient) ==
    \E fs \in FileStates :
      LET o1 == Log(o0, "validate", FileFaults(fs)) IN
      IF ValidationError(fs) # ""
      THEN Fail(w, o1, ValidationError(fs)) /\ UNCHANGED <<tmpfiles, now>>
      ELSE
        LET o2 == Log(o1, "encrypt", ReadFaults(fs)) IN
        IF EncryptRaises(fs)
        THEN Fail(w, o2, "Failed to encrypt PDF") /\ UNCHANGED <<tmpfiles, now>>
        ELSE \E raises \in BOOLEAN :
          LET o3 == Log(o2, "configure",
                        ConfigFaults(cloudinary_config[w], raises)) IN
          IF ConfigError(cloudinary_config[w], raises) # ""
          THEN /\ Fail(w, o3, ConfigError(cloudinary_config[w], raises))
               /\ UNCHANGED <<tmpfiles, now>>
          ELSE \E timestamp \in ClockReadings, stg \in StageOutcomes :
            LET name == SecureFilename(timestamp, Token(o0.inv),
                                       dlg[w].file_name)
                o4 == [Log(o3, "stage", StageFaults(stg))
                          EXCEPT !.name = name]
            IN
            /\ now' = timestamp
            /\ IF stg # "ok"
               THEN /\ Fail(w, Log(o4, "unlink", {}), "Failed to upload file")
                    /\ tmpfiles' =
                         AfterUnlink(IF StagedFileExists(stg)
                                     THEN tmpfiles \cup {o0.inv} ELSE tmpfiles,
                                     o0.inv, TmpPathBound(stg))
               ELSE /\ tmpfiles' = tmpfiles \cup {o0.inv}
                    /\ loc' = [loc EXCEPT ![w] =
                         [inv |-> o0.inv,
                          recipient |-> recipient,
                          access_level |-> o0.input.access_level,
                          key |-> o0.inv,
                          encrypted_data |->
                             EncryptedData(dlg[w].file_path, o0.inv),
                          secure_filename |-> name,
                          tmp_path |-> o0.inv]]
                    /\ out' = [out EXCEPT ![w] = Log(o4, "upload", {})]
                    /\ pc' = [pc EXCEPT ![w] = "uploading"]

\* The Share button: share_file up to its first network call.
ShareStart(w) ==
    /\ pc[w] = "dialog"
    /\ \E text \in RecipientTexts, access_level \in AccessLevels :
        LET recipient == Strip(text) IN
        IF recipient = <<>>
        THEN /\ out' = [out EXCEPT ![w] =
                  [Started(0, dlg[w].file_name, text, access_level)
                      EXCEPT !.ret = "None", !.box = "warning",
                             !.msg = "Please enter a recipient email",
                             !.prior = Attempts(out[w])]]
             /\ UNCHANGED <<tmpfiles, shares, pc, loc, now>>
        ELSE
          /\ shares < ShareBudget
          /\ shares' = shares + 1
          /\ Prepare(w, [Started(EarlierShares + shares + 1,
                                  dlg[w].file_name, text, access_level)
                             EXCEPT !.prior = Attempts(out[w])], recipient)
    /\ UNCHANGED <<crypt, viewer, chat, ledger, blobs, deletes, geo_service, user_id, db,
                   cloudinary_config, dlg, rows, loadres>>

\* What cloudinary.uploader.upload may do: raise (result is never bound), or
\* return a dictionary.
UploadOutcomes ==
    { [kind |-> "raise", result |-> [unbound |-> TRUE]],
      [kind |-> "return", result |-> [error |-> "no url"]],
      [kind |-> "return", result |-> [secure_url |-> "secure_pdfs"]] }

UploadFaults(up) ==
    IF up.kind = "raise" THEN {"upload_raises"}
    ELSE IF "secure_url" \notin DOMAIN up.result THEN {"upload_no_url"}
    ELSE {}

UploadFailedOnlyIfRaised(up) == up.kind = "raise"

UploadFailedNever(up) == FALSE

\* The upload failed: it raised, or (line 273) its result carries no secure_url.
UploadFailed(up) ==
    up.kind = "raise" \/ "secure_url" \notin DOMAIN up.result

UploadError(up) ==
    IF up.kind = "raise" THEN "Failed to upload file"
    ELSE "Failed to get secure URL from Cloudinary"

PutBlobNowhere(store, id, data) == store

\* The object is stored under its public_id; an upload to an existing
\* public_id replaces the object.
PutBlob(store, id, data) ==
    {b \in store : b.id # id} \cup {[id |-> id, data |-> data]}

\* The upload returns or raises; the staging file is unlinked; the result is
\* checked for its secure_url.
UploadDone(w) ==
    /\ pc[w] = "uploading"
    /\ \E up \in UploadOutcomes :
        LET l == loc[w]
            o1 == Log(out[w], "unlink", UploadFaults(up))
            stored == up.kind = "return" /\ "secure_url" \in DOMAIN up.result
        IN
        /\ tmpfiles' = AfterUnlink(tmpfiles, l.tmp_path, TRUE)
        /\ blobs' = IF stored
                    THEN PutBlob(blobs, l.secure_filename, l.encrypted_data)
                    ELSE blobs
        /\ IF UploadFailed(up)
           THEN Fail(w, o1, UploadError(up))
           ELSE /\ loc' = [loc EXCEPT ![w] =
                    [k \in DOMAIN l \cup {"result"} |->
                        IF k = "result"
                        THEN [secure_url |->
                                <<Get(up.result, "secure_url", None),
                                  l.secure_filename>>]
                        ELSE l[k]]]
                /\ out' = [out EXCEPT ![w] =
                      [Log(o1, "geolocate", {}) EXCEPT !.locator =
                          <<Get(up.result, "secure_url", None),
                            l.secure_filename>>]]
                /\ pc' = [pc EXCEPT ![w] = "geolocating"]
    /\ UNCHANGED <<crypt, viewer, chat, ledger, now, shares, deletes, geo_service, user_id, db,
                   cloudinary_config, dlg, rows, loadres>>

\* The geolocation of lines 278-285: any exception gives "Unknown"; a parsed
\* body gives "<city>, <country_name>", each defaulting to "Unknown".
Geolocation(resp) ==
    IF resp.kind # "json" THEN "Unknown"
    ELSE Get(resp.body, "city", "Unknown") \o ", "
            \o Get(resp.body, "country_name", "Unknown")

GeoRaises(resp) == resp.kind # "json"

GeoFaults(resp) == IF resp.kind # "json" THEN {resp.kind} ELSE {}

GeoCaughtNetworkOnly(resp) == resp.kind = "neterr"

\* except Exception (line 283): whatever the lookup raises is caught there.
GeoCaught(resp) == resp.kind \in {"neterr", "badjson"}

\* bytes.hex(): two hexadecimal digits per byte.
RECURSIVE Hex(_)
Hex(bytes) ==
    IF bytes = <<>> THEN <<>>
    ELSE <<Head(bytes) \div 16, Head(bytes) % 16>> \o Hex(Tail(bytes))

ShareDataDefaultAccess(d, l, user, geolocation, t1, t2) ==
    [file_name |-> d.file_name,
     secure_filename |-> l.secure_filename,
     original_path |-> d.file_path,
     owner_id |-> user,
     encryption_key |-> Hex(KeyBytes(l.key)),
     cloudinary_url |-> l.result.secure_url,
     access_records |->
        << [user_id |-> user, action |-> "upload", location |-> geolocation,
            time |-> FormatTime(t1)] >>,
     share_chain |->
        << [user_id |-> user, shared_with |-> l.recipient,
            access_level |-> "View Only", time |-> FormatTime(t2),
            location |-> geolocation] >>]

ShareDataLocalUrl(d, l, user, geolocation, t1, t2) ==
    [file_name |-> d.file_name,
     secure_filename |-> l.secure_filename,
     original_path |-> d.file_path,
     owner_id |-> user,
     encryption_key |-> Hex(KeyBytes(l.key)),
     cloudinary_url |-> <<"secure_files", l.secure_filename>>,
     access_records |->
        << [user_id |-> user, action |-> "upload", location |-> geolocation,
            time |-> FormatTime(t1)] >>,
     share_chain |->
        << [user_id |-> user, shared_with |-> l.recipient,
            access_level |-> l.access_level, time |-> FormatTime(t2),
            location |-> geolocation] >>]

\* share_data of lines 289-310; t1 and t2 are the clock as read for the access
\* event and, after it, for the share event. (uploaded_at, a third reading that
\* nothing reads back, is left out.)
ShareData(d, l, user, geolocation, t1, t2) ==
    [file_name |-> d.file_name,
     secure_filename |-> l.secure_filename,
     original_path |-> d.file_path,
     owner_id |-> user,
     encryption_key |-> Hex(KeyBytes(l.key)),
     cloudinary_url |-> l.result.secure_url,
     access_records |->
        << [user_id |-> user, action |-> "upload", location |-> geolocation,
            time |-> FormatTime(t1)] >>,
     share_chain |->
        << [user_id |-> user, shared_with |-> l.recipient,
            access_level |-> l.access_level, time |-> FormatTime(t2),
            location |-> geolocation] >>]

DbCheckSkipped(handle) == FALSE

\* if not db (line 314)
DbUnavailable(handle) == ~handle

DbFaults(handle) == IF ~handle THEN {"db_missing"} ELSE {}

\* The lookup answers; share_data is built; the database handle is checked.
GeoDone(w) ==
    /\ pc[w] = "geolocating"
    /\ \E resp \in GeoAnswers(geo_service) :
        LET l == loc[w]
            o1 == [Log(out[w], "geolocate", GeoFaults(resp))
                      EXCEPT !.stages = out[w].stages, !.geo = resp]
        IN
        IF GeoRaises(resp) /\ ~GeoCaught(resp)
        THEN Fail(w, o1, resp.kind) /\ UNCHANGED now
        ELSE
          \E t1 \in ClockReadings :
          \E t2 \in t1..Min(t1 + 1, MaxTime) :
            LET o2 == Log(Log(o1, "build", {}), "db_check", DbFaults(db[w])) IN
            /\ now' = t2
            /\ IF DbUnavailable(db[w])
               THEN Fail(w, o2, "Database connection not available")
               ELSE /\ loc' = [loc EXCEPT ![w] =
                        [k \in DOMAIN l \cup {"share_data"} |->
                            IF k = "share_data"
                            THEN ShareData(dlg[w], l, user_id[w],
                                           Geolocation(resp), t1, t2)
                            ELSE l[k]]]
                    /\ out' = [out EXCEPT ![w] = Log(o2, "ledger_add", {})]
                    /\ pc' = [pc EXCEPT ![w] = "writing"]
    /\ UNCHANGED <<crypt, viewer, chat, ledger, blobs, tmpfiles, shares, deletes, geo_service, user_id,
                   db, cloudinary_config, dlg, rows, loadres>>

AddDocumentPerOwner(led, id, data, pos) ==
    LET doc == [k \in DOMAIN data \cup {"id"} |->
                    IF k = "id" THEN id ELSE data[k]]
    IN SelectSeq(led, LAMBDA d : d.owner_id # data.owner_id) \o <<doc>>

AddDocumentOverwriting(led, id, data, pos) ==
    LET doc == [k \in DOMAIN data \cup {"id"} |->
                    IF k = "id" THEN id ELSE data[k]]
    IN IF pos >= 1 THEN [led EXCEPT ![pos] = doc] ELSE <<doc>> \o led

\* collection('secure_files').add(share_data): a document under a fresh random
\* id. A query returns documents in the order of their ids, so the new
\* document may come anywhere among the old ones: behind the first pos of them.
AddDocument(led, id, data, pos) ==
    LET doc == [k \in DOMAIN data \cup {"id"} |->
                    IF k = "id" THEN id ELSE data[k]]
    IN SubSeq(led, 1, pos) \o <<doc>> \o SubSeq(led, pos + 1, Len(led))

WriteFaults(ok) == IF ok THEN {} ELSE {"write_raises"}

\* The add returns or raises (without a database handle it can only raise);
\* on success the message, accept(), and the return from dialog.exec().
WriteDone(w) ==
    /\ pc[w] = "writing"
    /\ \E ok \in (IF db[w] THEN BOOLEAN ELSE {FALSE}), pos \in 0..Len(ledger) :
        LET l == loc[w]
            o1 == [out[w] EXCEPT !.faults = @ \cup WriteFaults(ok)]
        IN
        IF ~ok
        THEN /\ Fail(w, o1, "Failed to save to database")
             /\ UNCHANGED <<ledger, dlg>>
        ELSE /\ ledger' = AddDocument(ledger, l.inv, l.share_data, pos)
             /\ out' = [out EXCEPT ![w] =
                    [o1 EXCEPT !.ret = "None", !.box = "information",
                               !.msg = "has been securely shared",
                               !.accepted = TRUE]]
             /\ loc' = [loc EXCEPT ![w] = NoLocals]
             /\ dlg' = [dlg EXCEPT ![w] = NoDialog]
             /\ pc' = [pc EXCEPT ![w] = "reload"]
    /\ UNCHANGED <<crypt, viewer, chat, blobs, tmpfiles, now, shares, deletes, geo_service, user_id, db,
                   cloudinary_config, rows, loadres>>

\* ------------------------------ FileTrackerWindow.load_file_access_records
QueryAll(led, owner) == led

\* collection('secure_files').where(owner_id == user_id).get()
Query(led, owner) == SelectSeq(led, LAMBDA d : d.owner_id = owner)

\* The row of a share_chain event (lines 542-550).
ShareRow(doc, share) ==
    [file_name |-> Get(doc, "file_name", "Unknown"),
     user_name |-> <<"Shared with: ", Get(share, "shared_with", "Unknown")>>,
     location |-> Get(share, "location", "Unknown"),
     device |-> Get(share, "access_level", "Unknown"),
     time |-> Get(share, "time", "Unknown"),
     record_id |-> doc.id,
     action |-> "share"]

\* The row of an access_records event (lines 554-562).
AccessRow(doc, record) ==
    [file_name |-> Get(doc, "file_name", "Unknown"),
     user_name |-> Get(record, "user_name", "Unknown"),
     location |-> Get(record, "location", "Unknown"),
     device |-> Get(record, "device", "Unknown"),
     time |-> Get(record, "time", "Unknown"),
     record_id |-> doc.id,
     action |-> Get(record, "action", "view")]

RowsOfSharesOnly(doc) ==
    LET shares_ == Get(doc, "share_chain", <<>>)
    IN [i \in 1..Len(shares_) |-> ShareRow(doc, shares_[i])]

\* One document's rows: its share_chain first, then its access_records.
RowsOf(doc) ==
    LET shares_ == Get(doc, "share_chain", <<>>)
        records == Get(doc, "access_records", <<>>)
    IN [i \in 1..Len(shares_) |-> ShareRow(doc, shares_[i])]
        \o [i \in 1..Len(records) |-> AccessRow(doc, records[i])]

\* all_access_records before the sort: the documents in query order.
RECURSIVE Flatten(_)
Flatten(docs) ==
    IF docs = <<>> THEN <<>> ELSE RowsOf(Head(docs)) \o Flatten(Tail(docs))

LoadError(dbok, queryOk) ==
    IF ~dbok THEN "Database connection not available"
    ELSE IF ~queryOk THEN "Failed to load records from database"
    ELSE ""

LoadKeepingRows(w) ==
    /\ pc[w] \in {"main", "reload"}
    /\ \E queryOk \in BOOLEAN :
        LET err == LoadError(db[w], queryOk)
            tracked_files == Query(ledger, user_id[w])
        IN
        IF err # ""
        THEN /\ rows' = rows
             /\ loadres' = [loadres EXCEPT ![w] =
                    [status |-> "error", error |-> err, tracked_files |-> <<>>]]
        ELSE /\ rows' = [rows EXCEPT ![w] = SortNewestFirst(Flatten(tracked_files))]
             /\ loadres' = [loadres EXCEPT ![w] =
                    [status |-> "ok", error |-> "",
                     tracked_files |-> tracked_files]]
    /\ pc' = [pc EXCEPT ![w] = "main"]
    /\ out' = [out EXCEPT ![w] = NoOutcome]
    /\ UNCHANGED <<crypt, viewer, chat, ledger, blobs, tmpfiles, now, shares, deletes, geo_service, user_id, db,
                   cloudinary_config, dlg, loc>>

\* The whole handler: the table is cleared, the documents of this user are
\* queried, flattened, sorted newest first and shown.
Load(w) ==
    /\ pc[w] \in {"main", "reload"}
    /\ \E queryOk \in BOOLEAN :
        LET err == LoadError(db[w], queryOk)
            tracked_files == Query(ledger, user_id[w])
        IN
        IF err # ""
        THEN /\ rows' = [rows EXCEPT ![w] = <<>>]
             /\ loadres' = [loadres EXCEPT ![w] =
                    [status |-> "error", error |-> err, tracked_files |-> <<>>]]
        ELSE /\ rows' = [rows EXCEPT ![w] = SortNewestFirst(Flatten(tracked_files))]
             /\ loadres' = [loadres EXCEPT ![w] =
                    [status |-> "ok", error |-> "",
                     tracked_files |-> tracked_files]]
    /\ pc' = [pc EXCEPT ![w] = "main"]
    /\ out' = [out EXCEPT ![w] = NoOutcome]
    /\ UNCHANGED <<crypt, viewer, chat, ledger, blobs, tmpfiles, now, shares, deletes, geo_service, user_id, db,
                   cloudinary_config, dlg, loc>>

\* ------------------------------- FileTrackerWindow.delete_selected_record
RemoveRow(table, row) ==
    SubSeq(table, 1, row - 1) \o SubSeq(table, row + 1, Len(table))

DeleteSelectedAndDocument(w) ==
    /\ pc[w] = "main"
    /\ \E current_row \in 0..Len(rows[w]), yes \in BOOLEAN :
        IF current_row >= 1 /\ yes
        THEN /\ deletes < MaxDeletes
             /\ deletes' = deletes + 1
             /\ rows' = [rows EXCEPT ![w] = RemoveRow(rows[w], current_row)]
             /\ loadres' = [loadres EXCEPT ![w].status = "edited"]
             /\ ledger' = SelectSeq(ledger, LAMBDA d :
                              d.id # rows[w][current_row].record_id)
        ELSE UNCHANGED <<rows, loadres, deletes, ledger>>
    /\ UNCHANGED <<crypt, viewer, chat, blobs, tmpfiles, now, shares, geo_service, user_id, db,
                   cloudinary_config, pc, dlg, loc, out>>

\* A row is selected and the question answered Yes: the row leaves the table.
\* (No selection, or the answer No, changes nothing.)
\* The handler edits only the table a load left; Spec, whose properties are
\* about share_file and about the table as a load leaves it, does not take
\* it; SpecLedger does.
DeleteSelected(w) ==
    /\ pc[w] = "main"
    /\ \E current_row \in 0..Len(rows[w]), yes \in BOOLEAN :
        IF current_row >= 1 /\ yes
        THEN /\ deletes < MaxDeletes
             /\ deletes' = deletes + 1
             /\ rows' = [rows EXCEPT ![w] = RemoveRow(rows[w], current_row)]
             /\ loadres' = [loadres EXCEPT ![w].status = "edited"]
        ELSE UNCHANGED <<rows, loadres, deletes>>
    /\ UNCHANGED <<crypt, viewer, chat, ledger, blobs, tmpfiles, now, shares, geo_service, user_id, db,
                   cloudinary_config, pc, dlg, loc, out>>

\* ------------------------------------- PDFEncryption: encrypt, store, decrypt
\* One run of the cipher on its own: encrypt_pdf on the bytes read, the buffer
\* of line 222 kept in a store where a bit of its ciphertext may get flipped,
\* and decrypt_pdf on what the store gives back, with the key encrypt_pdf
\* returned.
PlainBytes == {0, 37, 255}

RECURSIVE SeqsUpTo(_, _)
SeqsUpTo(S, n) ==
    IF n = 0 THEN {<<>>}
    ELSE SeqsUpTo(S, n - 1)
            \cup {Append(s, x) : s \in SeqsUpTo(S, n - 1), x \in S}

Plaintexts == SeqsUpTo(PlainBytes, MaxPlainLen)

FlipBit(bytes, pos, bit) == [bytes EXCEPT ![pos] = Xor(@, 2^bit)]

EncryptStep ==
    /\ crypt.pc = "read"
    /\ \E key \in 1..MaxKey, seed \in 0..MaxNonceSeed :
        LET encryption_result ==
                EncryptPdf(crypt.pdf_data, KeyBytes(key), NonceBytes(seed))
        IN crypt' = [pc |-> "stored",
                     pdf_data |-> crypt.pdf_data,
                     encryption_result |-> encryption_result,
                     encrypted_data |-> Serialize(encryption_result),
                     flipped |-> <<>>]
    /\ UNCHANGED <<tracker, viewer, chat>>

\* One bit of the stored ciphertext is flipped.
TamperStep ==
    /\ crypt.pc = "stored"
    /\ crypt.flipped = <<>>
    /\ \E pos \in 1..Len(crypt.encryption_result.ciphertext), bit \in 0..7 :
        crypt' = [crypt EXCEPT
            !.encrypted_data =
                crypt.encryption_result.nonce \o crypt.encryption_result.tag
                    \o FlipBit(crypt.encryption_result.ciphertext, pos, bit),
            !.flipped = <<pos, bit>>]
    /\ UNCHANGED <<tracker, viewer, chat>>

DecryptStep ==
    /\ crypt.pc = "stored"
    /\ crypt' = [k \in DOMAIN crypt \cup {"decrypted"} |->
                    IF k = "decrypted"
                    THEN DecryptPdf(crypt.encrypted_data,
                                    crypt.encryption_result.key)
                    ELSE IF k = "pc" THEN "done"
                    ELSE crypt[k]]
    /\ UNCHANGED <<tracker, viewer, chat>>

\* ----------------------------------------------------------- SecurePDFViewer
\* The sizes page_label may have.
LabelSizes == {"minimum", "maximized"}

\* load_current_page: for a page of the document, the page is rendered and
\* scaled to the label, and the buttons are set; for any other page number
\* nothing is done.
LoadCurrentPage(v) ==
    IF 0 <= v.current_page /\ v.current_page < v.total_pages
    THEN [v EXCEPT !.shown = <<v.current_page, v.size>>,
                   !.prev_enabled = v.current_page > 0,
                   !.next_enabled = v.current_page < v.total_pages - 1]
    ELSE v

\* __init__ and setup_ui: page 0, the two buttons as QPushButton makes them
\* (enabled), the document opened, and the first page loaded.
NewViewer(total_pages, size) ==
    LoadCurrentPage(
        [pc |-> "open", total_pages |-> total_pages, current_page |-> 0,
         prev_enabled |-> TRUE, next_enabled |-> TRUE, shown |-> None,
         size |-> size, events |-> 0, last |-> "setup_ui", from |-> 0])

\* The event that v takes next, noted with the page it found.
Event(v, name) ==
    [v EXCEPT !.events = @ + 1, !.last = name, !.from = v.current_page]

CanGoPrevious(v) == v.current_page > 0

CanGoNextOffByOne(v) == v.current_page < v.total_pages

CanGoNext(v) == v.current_page < v.total_pages - 1

\* previous_page, however it is called.
PreviousPage ==
    /\ viewer.pc = "open"
    /\ viewer.events < MaxViewerEvents
    /\ LET v == Event(viewer, "previous_page") IN
        viewer' = IF CanGoPrevious(v)
                  THEN LoadCurrentPage([v EXCEPT !.current_page = @ - 1])
                  ELSE v
    /\ UNCHANGED <<tracker, crypt, chat>>

\* next_page, however it is called.
NextPage ==
    /\ viewer.pc = "open"
    /\ viewer.events < MaxViewerEvents
    /\ LET v == Event(viewer, "next_page") IN
        viewer' = IF CanGoNext(v)
                  THEN LoadCurrentPage([v EXCEPT !.current_page = @ + 1])
                  ELSE v
    /\ UNCHANGED <<tracker, crypt, chat>>

\* resizeEvent: the label has its new size and the page is loaded again.
ResizeEvent ==
    /\ viewer.pc = "open"
    /\ viewer.events < MaxViewerEvents
    /\ \E size \in LabelSizes :
        viewer' = LoadCurrentPage([Event(viewer, "resizeEvent")
                                      EXCEPT !.size = size])
    /\ UNCHANGED <<tracker, crypt, chat>>

\* ------------------------------------------------- SimpleChat, AIChatWidget
\* Text is a sequence of words and of the whitespace between them.
Blanks == {" ", "\n"}
\* The number of characters of a word.
WordLen(word) ==
    CASE word = "w29" -> 29
      [] word = "w30" -> 30
      [] word = "w60" -> 60
      [] OTHER -> 2

LineWidth == 60

\* str.split(): the words of a text.
Split(text) == SelectSeq(text, LAMBDA c : c \notin Blanks)

\* sep.join(items), each item a text.
RECURSIVE Join(_, _)
Join(sep, items) ==
    IF items = <<>> THEN <<>>
    ELSE IF Len(items) = 1 THEN items[1]
    ELSE items[1] \o <<sep>> \o Join(sep, Tail(items))

\* The loop of format_response over the words left: w holds lines,
\* current_line and current_length.
RECURSIVE Wrap(_, _)
Wrap(words, w) ==
    IF words = <<>> THEN w
    ELSE LET word == Head(words) IN
         Wrap(Tail(words),
              IF w.current_length + WordLen(word) + 1 <= LineWidth
              THEN [w EXCEPT !.current_line = Append(@, <<word>>),
                             !.current_length = @ + WordLen(word) + 1]
              ELSE [lines |-> Append(w.lines, Join(" ", w.current_line)),
                    current_line |-> << <<word>> >>,
                    current_length |-> WordLen(word)])

\* SimpleChat.format_response
FormatResponse(text) ==
    LET w == Wrap(Split(text),
                  [lines |-> <<>>, current_line |-> <<>>, current_length |-> 0])
        lines == IF w.current_line # <<>>
                 THEN Append(w.lines, Join(" ", w.current_line))
                 ELSE w.lines
    IN Join("\n", lines)

Greeting == <<"Hello!">>

\* SimpleChat.__init__: an empty history, and the greeting added to it.
NewHistory == << [role |-> "assistant", content |-> Greeting] >>

\* add_user_message, add_bot_message
AddUserMessage(history, message) ==
    Append(history, [role |-> "user", content |-> message])
AddBotMessage(history, message) ==
    Append(history, [role |-> "assistant", content |-> message])

\* What chat.send_message and response.text may do.
ApiOutcomes ==
    { [kind |-> "raise", error |-> "quota exceeded"],
      [kind |-> "return", text |-> <<"ok">>],
      [kind |-> "return", text |-> <<" ", "w30", "\n", "\n", "w29", " ", "ok">>],
      [kind |-> "return", text |-> <<"w60", " ", "ok">>] }

\* What get_ai_answer returns, and adds to the history as the assistant's.
Answer(outcome) ==
    IF outcome.kind = "raise"
    THEN <<"I'm sorry, I encountered an error: ", outcome.error>>
    ELSE FormatResponse(outcome.text)

GetAiAnswerSilentOnError(history, user_message, outcome) ==
    IF outcome.kind = "raise"
    THEN AddUserMessage(history, user_message)
    ELSE AddBotMessage(AddUserMessage(history, user_message), Answer(outcome))

\* SimpleChat.get_ai_answer: the history it leaves.
GetAiAnswer(history, user_message, outcome) ==
    AddBotMessage(AddUserMessage(history, user_message), Answer(outcome))

\* json.dump and json.load of a list of messages, as the tokens of the file:
\* a string is written with its line breaks escaped.
Escape(text) == [i \in 1..Len(text) |-> IF text[i] = "\n" THEN "\\n" ELSE text[i]]
Unescape(text) == [i \in 1..Len(text) |-> IF text[i] = "\\n" THEN "\n" ELSE text[i]]

RECURSIVE DumpMessages(_)
DumpMessages(history) ==
    IF history = <<>> THEN <<>>
    ELSE <<"{", "role", Head(history).role,
           "content", Escape(Head(history).content), "}">>
            \o DumpMessages(Tail(history))

JsonDump(history) == <<"[">> \o DumpMessages(history) \o <<"]">>

RECURSIVE LoadMessages(_)
LoadMessages(tokens) ==
    IF tokens = <<>> THEN <<>>
    ELSE << [role |-> tokens[3], content |-> Unescape(tokens[5])] >>
            \o LoadMessages(SubSeq(tokens, 7, Len(tokens)))

\* json.load raises on a file that is not JSON.
IsJson(tokens) ==
    /\ Len(tokens) >= 2
    /\ tokens[1] = "[" /\ tokens[Len(tokens)] = "]"
    /\ (Len(tokens) - 2) % 6 = 0

JsonLoad(tokens) == LoadMessages(SubSeq(tokens, 2, Len(tokens) - 1))

\* What the user may type into message_input.
MessageTexts == {<<>>, <<" ">>, <<" ", "hi", " ", "ok", " ">>}

\* File names the user may give to save under ("" cancels the file dialog),
\* and a file of another program.
SavePaths == {<<"chat">>, <<"chat", ".json">>}
OtherFiles == [p \in {<<"notes", ".json">>} |-> <<"not", "json">>]

EndsWithJson(path) == path # <<>> /\ path[Len(path)] = ".json"

\* The bubbles add_message makes.
Bubble(text, is_user) == [text |-> text, is_user |-> is_user]

RECURSIVE BubblesOf(_)
BubblesOf(history) ==
    IF history = <<>> THEN <<>>
    ELSE <<Bubble(Head(history).content, Head(history).role = "user")>>
            \o BubblesOf(Tail(history))

\* AIChatWidget.__init__: a new chatbot and the bubble of its greeting.
NewChat ==
    [pc |-> "open", history |-> NewHistory,
     bubbles |-> BubblesOf(NewHistory), pending |-> <<>>,
     files |-> OtherFiles, calls |-> 0, fresh |-> TRUE,
     asks |-> 0, saves |-> 0, loads |-> 0,
     last |-> [op |-> "__init__"]]

\* send_message: the text of the input stripped; nothing for an empty one;
\* otherwise its bubble, and get_ai_response left to a timer.
SendMessage ==
    /\ chat.pc = "open"
    /\ \E text \in MessageTexts :
        LET message == Strip(text) IN
        IF message = <<>>
        THEN UNCHANGED chat
        ELSE /\ chat.asks < MaxAsks
             /\ chat' = [chat EXCEPT
                    !.asks = @ + 1,
                    !.bubbles = Append(@, Bubble(message, TRUE)),
                    !.pending = Append(@, message),
                    !.last = [op |-> "send_message"]]
    /\ UNCHANGED <<tracker, crypt, viewer>>

\* get_ai_response, when its timer fires: chatbot.get_ai_answer (which
\* catches what the API raises) and the bubble of what it returned.
GetAiResponse ==
    /\ chat.pc = "open"
    /\ chat.pending # <<>>
    /\ \E outcome \in ApiOutcomes :
        chat' = [chat EXCEPT
            !.history = GetAiAnswer(@, Head(chat.pending), outcome),
            !.calls = @ + 1,
            !.bubbles = Append(@, Bubble(Answer(outcome), FALSE)),
            !.pending = Tail(@),
            !.last = [op |-> "get_ai_answer", message |-> Head(chat.pending),
                      outcome |-> outcome.kind]]
    /\ UNCHANGED <<tracker, crypt, viewer>>

\* clear_chat: the bubbles removed, a new chatbot, the bubble of its greeting.
ClearChat ==
    /\ chat.pc = "open"
    /\ chat' = [chat EXCEPT
            !.history = NewHistory, !.calls = 0, !.fresh = TRUE,
            !.bubbles = BubblesOf(NewHistory),
            !.last = [op |-> "clear_chat"]]
    /\ UNCHANGED <<tracker, crypt, viewer>>

\* save_chat_history: nothing when the file dialog is cancelled; ".json" is
\* added to a name without it; the history is dumped to the file, unless the
\* file cannot be opened.
SaveChatHistory ==
    /\ chat.pc = "open"
    /\ \E picked \in SavePaths \cup {<<>>}, opens \in BOOLEAN :
        IF picked = <<>>
        THEN UNCHANGED chat
        ELSE LET file_path == IF EndsWithJson(picked) THEN picked
                              ELSE Append(picked, ".json")
             IN
             /\ chat.saves < MaxSaves
             /\ chat' = [chat EXCEPT
                    !.saves = @ + 1,
                    !.files = IF opens
                              THEN [p \in DOMAIN @ \cup {file_path} |->
                                      IF p = file_path
                                      THEN JsonDump(chat.history) ELSE @[p]]
                              ELSE @,
                    !.last = [op |-> "save_chat_history", ok |-> opens,
                              file_path |-> file_path,
                              history |-> chat.history]]
    /\ UNCHANGED <<tracker, crypt, viewer>>

\* load_chat_history: nothing when the file dialog is cancelled; the file is
\* read (an exception ends the handler there); clear_chat; a new chatbot; and
\* every message of the file gets its bubble and is added to the chatbot.
LoadChatHistory ==
    /\ chat.pc = "open"
    /\ \E picked \in DOMAIN chat.files \cup {<<>>} :
        IF picked = <<>>
        THEN UNCHANGED chat
        ELSE /\ chat.loads < MaxLoads
             /\ IF ~IsJson(chat.files[picked])
                THEN chat' = [chat EXCEPT
                        !.loads = @ + 1,
                        !.last = [op |-> "load_chat_history", ok |-> FALSE,
                                  file_path |-> picked]]
                ELSE LET history == JsonLoad(chat.files[picked]) IN
                     chat' = [chat EXCEPT
                        !.loads = @ + 1,
                        !.history = NewHistory \o history,
                        !.calls = 0, !.fresh = FALSE,
                        !.bubbles = BubblesOf(NewHistory) \o BubblesOf(history),
                        !.last = [op |-> "load_chat_history", ok |-> TRUE,
                                  file_path |-> picked]]
    /\ UNCHANGED <<tracker, crypt, viewer>>

\* ------------------------------------------------------------ initial state
\* What the earlier sessions left: invocation n, by EarlierUsers[n], was of
\* report.pdf for recipient "c", in second FirstTime, and the
\* lookup down.
EarlierDialog == [file_name |-> "report.pdf", file_path |-> PathOf("report.pdf")]

EarlierName(inv) ==
    SecureFilename(FirstTime, Token(inv), EarlierDialog.file_name)

EarlierLocals(inv) ==
    [inv |-> inv, recipient |-> <<"c">>, access_level |-> "View Only",
     key |-> inv,
     encrypted_data |-> EncryptedData(EarlierDialog.file_path, inv),
     secure_filename |-> EarlierName(inv),
     result |-> [secure_url |-> <<"secure_pdfs", EarlierName(inv)>>]]

EarlierData(inv) ==
    ShareData(EarlierDialog, EarlierLocals(inv), EarlierUsers[inv],
              Geolocation([kind |-> "neterr"]), FirstTime, FirstTime)

RECURSIVE EarlierLedgerUpTo(_)
EarlierLedgerUpTo(n) ==
    IF n = 0 THEN <<>>
    ELSE AddDocument(EarlierLedgerUpTo(n - 1), n, EarlierData(n), n - 1)

EarlierLedger == EarlierLedgerUpTo(EarlierShares)

EarlierBlobs ==
    { [id |-> EarlierLocals(n).secure_filename,
       data |-> EarlierLocals(n).encrypted_data] : n \in 1..EarlierShares }

\* An instance that is not running shows nothing.
NotLoaded == [status |-> "closed", error |-> "", tracked_files |-> <<>>]

\* FileTrackerWindow.__init__ ends with load_file_access_records(): the state
\* after construction is that of a first load.
FirstLoad(dbok, user) ==
    IF dbok
    THEN [status |-> "ok", error |-> "",
          tracked_files |-> Query(EarlierLedger, user)]
    ELSE [status |-> "error", error |-> LoadError(FALSE, TRUE),
          tracked_files |-> <<>>]

FirstRows(dbok, user) ==
    IF dbok THEN SortNewestFirst(Flatten(Query(EarlierLedger, user))) ELSE <<>>

\* The parts of the initial state that do not depend on who is running.
InitShared ==
    /\ ledger = EarlierLedger
    /\ blobs = EarlierBlobs
    /\ geo_service \in GeoConditions
    /\ tmpfiles = {}
    /\ now = FirstTime
    /\ shares = 0
    /\ deletes = 0
    /\ dlg = [w \in Windows |-> NoDialog]
    /\ loc = [w \in Windows |-> NoLocals]
    /\ out = [w \in Windows |-> NoOutcome]
    /\ rows = [w \in Windows |->
                IF pc[w] = "closed" THEN <<>>
                ELSE FirstRows(db[w], user_id[w])]
    /\ loadres = [w \in Windows |->
                IF pc[w] = "closed" THEN NotLoaded
                ELSE FirstLoad(db[w], user_id[w])]

\* One instance runs, as either user; it may lack the database handle or the
\* storage configuration (both are module globals, fixed for the life of the
\* process). Instance 2 is not started.
Init ==
    /\ user_id \in {u \in [Windows -> Users] : u[2] = "alice"}
    /\ db \in {d \in [Windows -> BOOLEAN] : d[2]}
    /\ cloudinary_config \in {c \in [Windows -> BOOLEAN] : c[2]}
    /\ pc = [w \in Windows |-> IF w = 1 THEN "main" ELSE "closed"]
    /\ InitShared
    /\ crypt = NoCrypt
    /\ viewer = NoViewer
    /\ chat = NoChat

Next ==
    \/ \E w \in Windows : OpenDialog(w)
    \/ \E w \in Windows : CancelDialog(w)
    \/ \E w \in Windows : ShareStart(w)
    \/ \E w \in Windows : UploadDone(w)
    \/ \E w \in Windows : GeoDone(w)
    \/ \E w \in Windows : WriteDone(w)
    \/ \E w \in Windows : Load(w)

Spec == Init /\ [][Next]_vars

\* What the user types and picks when the same share is made again.
RetryInput ==
    [file_name |-> "report.pdf", text |-> <<"c">>, access_level |-> "View Only"]

\* Two instances run at once, each up to the start of its uploads: the part
\* of share_file in which the names of the stored objects are made. Both
\* share with the same recipient, at the same access level.
InitNames ==
    /\ user_id = [w \in Windows |-> "alice"]
    /\ db = [w \in Windows |-> TRUE]
    /\ cloudinary_config = [w \in Windows |-> TRUE]
    /\ pc = [w \in Windows |-> "main"]
    /\ InitShared
    /\ geo_service = "up"
    /\ crypt = NoCrypt
    /\ viewer = NoViewer
    /\ chat = NoChat

NextNames ==
    \/ \E w \in Windows : OpenDialog(w)
    \/ \E w \in Windows : ShareStart(w) /\ out'[w].input = RetryInput

SpecNames == InitNames /\ [][NextNames]_vars

\* One instance, of the user who shared before, with its database handle and
\* storage configuration, and all its handlers, delete_selected_record among
\* them.
InitLedger ==
    /\ user_id = [w \in Windows |-> "alice"]
    /\ db = [w \in Windows |-> TRUE]
    /\ cloudinary_config = [w \in Windows |-> TRUE]
    /\ pc = [w \in Windows |-> IF w = 1 THEN "main" ELSE "closed"]
    /\ InitShared
    /\ geo_service = "up"
    /\ crypt = NoCrypt
    /\ viewer = NoViewer
    /\ chat = NoChat

NextLedger ==
    \/ \E w \in Windows : OpenDialog(w)
    \/ \E w \in Windows : CancelDialog(w)
    \/ \E w \in Windows : ShareStart(w)
    \/ \E w \in Windows : UploadDone(w)
    \/ \E w \in Windows : GeoDone(w)
    \/ \E w \in Windows : WriteDone(w)
    \/ \E w \in Windows : Load(w)
    \/ \E w \in Windows : DeleteSelected(w)

SpecLedger == InitLedger /\ [][NextLedger]_vars

\* Two instances are started and the user works in the first only: the Share
\* button pressed again, with the same recipient and access level, in a dialog
\* that a failed share_file left open. The instance may lack its database
\* handle.
InitRetry ==
    /\ user_id = [w \in Windows |-> "alice"]
    /\ db \in {d \in [Windows -> BOOLEAN] : d[2]}
    /\ cloudinary_config = [w \in Windows |-> TRUE]
    /\ pc = [w \in Windows |-> "main"]
    /\ InitShared
    /\ geo_service = "up"
    /\ crypt = NoCrypt
    /\ viewer = NoViewer
    /\ chat = NoChat

NextRetry ==
    \/ OpenDialog(1)
    \/ CancelDialog(1)
    \/ ShareStart(1) /\ out'[1].input = RetryInput
    \/ UploadDone(1)
    \/ GeoDone(1)
    \/ WriteDone(1)
    \/ Load(1)

SpecRetry == InitRetry /\ [][NextRetry]_vars

\* Two instances of one user run at once, and in both share_file runs to its
\* end with nothing failing, all within one second: their uploads, lookups and
\* ledger adds interleave in every order, and so do their loads, which may
\* fail.
InitPair ==
    /\ user_id = [w \in Windows |-> "alice"]
    /\ db = [w \in Windows |-> TRUE]
    /\ cloudinary_config = [w \in Windows |-> TRUE]
    /\ pc = [w \in Windows |-> "main"]
    /\ InitShared
    /\ geo_service = "up"
    /\ crypt = NoCrypt
    /\ viewer = NoViewer
    /\ chat = NoChat

\* One step of share_file in which nothing fails and the clock reads the same
\* second as before.
Smoothly(w) == out'[w].faults = {} /\ now' = now

NextPair ==
    \/ \E w \in Windows : OpenDialog(w)
    \/ \E w \in Windows :
          ShareStart(w) /\ Smoothly(w) /\ out'[w].input = RetryInput
    \/ \E w \in Windows : UploadDone(w) /\ Smoothly(w)
    \/ \E w \in Windows : GeoDone(w) /\ Smoothly(w)
    \/ \E w \in Windows : WriteDone(w) /\ Smoothly(w)
    \/ \E w \in Windows : Load(w)

SpecPair == InitPair /\ [][NextPair]_vars

\* The cipher on its own: no instance runs.
InitCipher ==
    /\ user_id = [w \in Windows |-> "alice"]
    /\ db = [w \in Windows |-> TRUE]
    /\ cloudinary_config = [w \in Windows |-> TRUE]
    /\ pc = [w \in Windows |-> "closed"]
    /\ InitShared
    /\ geo_service = "up"
    /\ crypt \in {[pc |-> "read", pdf_data |-> p] : p \in Plaintexts}
    /\ viewer = NoViewer
    /\ chat = NoChat

NextCipher == EncryptStep \/ TamperStep \/ DecryptStep

SpecCipher == InitCipher /\ [][NextCipher]_vars

\* A SecurePDFViewer on its own, as constructed on a document of up to
\* MaxPages pages (a document may have none); no instance of the tracker runs.
InitViewer ==
    /\ user_id = [w \in Windows |-> "alice"]
    /\ db = [w \in Windows |-> TRUE]
    /\ cloudinary_config = [w \in Windows |-> TRUE]
    /\ pc = [w \in Windows |-> "closed"]
    /\ InitShared
    /\ geo_service = "up"
    /\ crypt = NoCrypt
    /\ chat = NoChat
    /\ viewer \in {NewViewer(n, size) : n \in 0..MaxPages, size \in LabelSizes}

NextViewer == PreviousPage \/ NextPage \/ ResizeEvent

SpecViewer == InitViewer /\ [][NextViewer]_vars

\* An AIChatWidget on its own; no instance of the tracker runs.
InitChat ==
    /\ user_id = [w \in Windows |-> "alice"]
    /\ db = [w \in Windows |-> TRUE]
    /\ cloudinary_config = [w \in Windows |-> TRUE]
    /\ pc = [w \in Windows |-> "closed"]
    /\ InitShared
    /\ geo_service = "up"
    /\ crypt = NoCrypt
    /\ viewer = NoViewer
    /\ chat = NewChat

NextChat ==
    \/ SendMessage
    \/ GetAiResponse
    \/ ClearChat
    \/ SaveChatHistory
    \/ LoadChatHistory

SpecChat == InitChat /\ [][NextChat]_vars

\* ------------------------------------------------------------ properties
\* The stages of share_file in the order the code enters them.
StageOrder ==
    <<"validate", "encrypt", "configure", "stage", "upload", "unlink",
      "geolocate", "build", "db_check", "ledger_add">>

Pos(stage) == CHOOSE i \in 1..Len(StageOrder) : StageOrder[i] = stage

\* What the environment can answer a stage with that is a failure of that
\* stage (the lookup's failures are not among them), and the stage it fails.
AbortFaults ==
    {"missing", "notfile", "unreadable", "config_missing", "config_raises",
     "create_fails", "write_fails", "upload_raises", "upload_no_url",
     "db_missing", "write_raises"}

FaultStage(f) ==
    CASE f \in {"missing", "notfile"} -> "validate"
      [] f = "unreadable" -> "encrypt"
      [] f \in {"config_missing", "config_raises"} -> "configure"
      [] f \in {"create_fails", "write_fails"} -> "stage"
      [] f \in {"upload_raises", "upload_no_url"} -> "upload"
      [] f = "db_missing" -> "db_check"
      [] f = "write_raises" -> "ledger_add"

UploadFaultNames == {"upload_raises", "upload_no_url"}

Entered(o, stage) == \E i \in 1..Len(o.stages) : o.stages[i] = stage

\* The documents of the ledger that invocation inv wrote.
DocsOf(inv) == SelectSeq(ledger, LAMBDA d : d.id = inv)

\* share_file has returned from an invocation that passed the recipient check.
Returned(w) == out[w].inv # 0 /\ out[w].ret # "running"

\* C1: when the upload of share_file raises or returns a result without
\* secure_url, the call fails and writes nothing: a query on owner_id returns
\* for every owner what it returned before the call.
C1_UploadFailureLeavesNoRecord ==
    \A w \in Windows :
        out[w].faults \cap UploadFaultNames # {} =>
            /\ out[w].ret = "False"
            /\ ~Entered(out[w], "ledger_add")
            /\ \A u \in Users : Query(ledger, u) = Query(out[w].before, u)

C1_Witness ==
    \E w \in Windows :
        /\ "upload_no_url" \in out[w].faults
        /\ out[w].ret = "False"
        /\ Query(out[w].before, user_id[w]) # <<>>

\* C2: a failure of any stage of share_file (validation, encryption, storage
\* configuration, staging and upload, ledger availability, ledger write) ends
\* the call: no stage after the failed one is entered (the staging file's
\* cleanup aside), so no upload after an encryption failure and no ledger
\* write after any earlier failure, and the ledger holds no document of that
\* invocation.
C2_FailureAbortsRemainingStages ==
    \A w \in Windows :
        \A f \in out[w].faults \cap AbortFaults :
            /\ out[w].ret = "False"
            /\ \A i \in 1..Len(out[w].stages) :
                  \/ out[w].stages[i] = "unlink"
                  \/ Pos(out[w].stages[i]) <= Pos(FaultStage(f))
            /\ DocsOf(out[w].inv) = <<>>

C2_Witness ==
    \E w \in Windows :
        /\ "db_missing" \in out[w].faults
        /\ Entered(out[w], "build")
        /\ out[w].ret = "False"
        /\ blobs # EarlierBlobs

\* C3: when the ledger write of share_file fails after a successful upload,
\* what the caller is given differs from what it is given after a validation,
\* an encryption or an upload failure.
C3_PersistenceFailureHasItsOwnKind ==
    \A w \in Windows :
        ("write_raises" \in out[w].faults /\ Returned(w)) =>
            out[w].ret \notin
                { ReturnValue(ValidationError("missing")),
                  ReturnValue("Failed to encrypt PDF"),
                  ReturnValue(UploadError([kind |-> "raise"])) }

\* C4: once share_file has returned, no staging file made by that invocation
\* exists, whether staging and upload succeeded or raised.
C4_StagingFileAlwaysDeleted ==
    \A w \in Windows : Returned(w) => out[w].inv \notin tmpfiles

\* C5: after a successful share_file of file F by user O for the recipient
\* typed (R, the text without surrounding whitespace) at access level A, the
\* ledger holds exactly one document of that invocation, with file_name F,
\* owner_id O, a share_chain of one event with shared_with R and access_level
\* A, and access_records of one event with action 'upload'.
C5_PersistedRecordMatchesInputs ==
    \A w \in Windows :
        out[w].accepted =>
            /\ Len(DocsOf(out[w].inv)) = 1
            /\ LET doc == DocsOf(out[w].inv)[1] IN
                /\ doc.file_name = out[w].input.file_name
                /\ doc.owner_id = user_id[w]
                /\ Len(doc.share_chain) = 1
                /\ doc.share_chain[1].shared_with = Strip(out[w].input.text)
                /\ doc.share_chain[1].access_level = out[w].input.access_level
                /\ Len(doc.access_records) = 1
                /\ doc.access_records[1].action = "upload"

C5_Witness ==
    \E w \in Windows :
        /\ out[w].accepted
        /\ out[w].input.text = <<" ", "c", " ">>
        /\ out[w].input.file_name = "report.pdf"
        /\ out[w].input.access_level = "View and Share"
        /\ user_id[w] = "bob"

\* C6: when the geolocation lookup fails (the request raises, or the body
\* does not parse), share_file goes on: the record is built, the ledger write
\* is attempted if there is a database handle, the lookup's failure is not
\* what the caller is told, and a call that fails all the same fails for
\* another stage's failure.
C6_GeolocationFailureNeverAborts ==
    \A w \in Windows :
        out[w].geo.kind \in {"neterr", "badjson"} =>
            /\ Entered(out[w], "build")
            /\ db[w] => Entered(out[w], "ledger_add")
            /\ out[w].msg \notin {"neterr", "badjson"}
            /\ out[w].ret = "False" => out[w].faults \cap AbortFaults # {}

C6_Witness ==
    \E w \in Windows :
        /\ out[w].geo.kind = "badjson"
        /\ out[w].accepted
        /\ DocsOf(out[w].inv) # <<>>

\* The lookup yielded a usable location: a parsed body with a city or a
\* country.
Usable(resp) ==
    /\ resp.kind = "json"
    /\ {"city", "country_name"} \cap DOMAIN resp.body # {}

\* C7: the location stored in the access event and in the share event of a
\* persisted record is exactly "Unknown" when the lookup gave no usable
\* location (it raised, did not parse, or had neither city nor country), and
\* otherwise the same resolved location in both.
C7_UnusableLocationIsUnknown ==
    \A w \in Windows :
        out[w].accepted =>
            \A i \in 1..Len(DocsOf(out[w].inv)) :
                LET doc == DocsOf(out[w].inv)[i] IN
                IF Usable(out[w].geo)
                THEN doc.access_records[1].location
                        = doc.share_chain[1].location
                ELSE /\ doc.access_records[1].location = "Unknown"
                     /\ doc.share_chain[1].location = "Unknown"

\* ---- load_file_access_records
Range(s) == {s[i] : i \in 1..Len(s)}

\* The rows of table with time t, in the table's order.
WithTime(table, t) == SelectSeq(table, LAMBDA r : r.time = t)

\* The events the documents hold, counted from the documents themselves.
RECURSIVE EventCount(_)
EventCount(docs) ==
    IF docs = <<>> THEN 0
    ELSE Len(Head(docs).share_chain) + Len(Head(docs).access_records)
            + EventCount(Tail(docs))

Count(table, x) == Cardinality({i \in 1..Len(table) : table[i] = x})

\* C8: the rows a successful load shows are in non-increasing order of their
\* time strings, and rows of equal time are in the order of the flattening:
\* documents in query order, and of one document the share_chain events
\* before the access_records events.
C8_LoadSortedNewestFirstAndStable ==
    \A w \in Windows :
        loadres[w].status = "ok" =>
            LET flat == Flatten(loadres[w].tracked_files) IN
            /\ \A i \in 1..Len(rows[w]) - 1 :
                  ~StrLess(rows[w][i].time, rows[w][i + 1].time)
            /\ \A t \in {r.time : r \in Range(flat) \cup Range(rows[w])} :
                  WithTime(rows[w], t) = WithTime(flat, t)

C8_Witness ==
    \E w \in Windows :
        /\ loadres[w].status = "ok"
        /\ LET flat == Flatten(loadres[w].tracked_files) IN
            /\ \E i, j \in 1..Len(flat) :
                  i < j /\ StrLess(flat[i].time, flat[j].time)
            /\ \E i, j \in 1..Len(flat) :
                  i < j /\ flat[i].time = flat[j].time
            /\ rows[w] # flat

\* C9: a successful load shows every event of the user's documents once and
\* nothing else: as many rows as the documents' share_chain and access_records
\* have events together, which is at least two for each document a
\* successful share_file of that user wrote; and the documents it read are
\* the user's documents in the ledger.
C9_LoadLosesAndDuplicatesNothing ==
    \A w \in Windows :
        loadres[w].status = "ok" =>
            LET docs == loadres[w].tracked_files
                flat == Flatten(docs)
            IN
            /\ pc[w] # "reload" => docs = Query(ledger, user_id[w])
            /\ Len(rows[w]) = EventCount(docs)
            /\ Len(rows[w]) >= 2 * Len(docs)
            /\ \A d \in Range(docs) :
                  /\ \E r \in Range(rows[w]) :
                        r.record_id = d.id /\ r.action = "share"
                  /\ \E r \in Range(rows[w]) :
                        r.record_id = d.id /\ r.action = "upload"
            /\ \A x \in Range(rows[w]) \cup Range(flat) :
                  Count(rows[w], x) = 1

C9_Witness ==
    \E w \in Windows :
        /\ loadres[w].status = "ok"
        /\ pc[w] = "main"
        /\ Len(Query(ledger, user_id[w])) = 2
        /\ Len(rows[w]) = 4

\* C10: the rows a successful load shows all come from documents whose
\* owner_id is the window's user_id; when the ledger has no document of that
\* user the load succeeds with no rows and reports no error.
C10_LoadShowsOnlyOwnRecords ==
    \A w \in Windows :
        loadres[w].status = "ok" =>
            /\ \A r \in Range(rows[w]) :
                  \E d \in Range(ledger) :
                      d.id = r.record_id /\ d.owner_id = user_id[w]
            /\ Query(ledger, user_id[w]) = <<>> =>
                  rows[w] = <<>> /\ loadres[w].error = ""

C10_Witness ==
    \E w \in Windows :
        /\ loadres[w].status = "ok"
        /\ pc[w] = "main"
        /\ shares > 0
        /\ rows[w] = <<>>
        /\ \E d \in Range(ledger) : d.owner_id # user_id[w]

\* ---- PDFEncryption
\* C11: decrypt_pdf, given the buffer nonce + tag + ciphertext of an
\* encrypt_pdf run as it was built and the key that run returned, returns
\* exactly the bytes that were encrypted.
C11_RoundTripExact ==
    (crypt.pc = "done" /\ crypt.flipped = <<>>) =>
        /\ crypt.decrypted.ok
        /\ crypt.decrypted.data = crypt.pdf_data

C11_Witness ==
    /\ crypt.pc = "done"
    /\ crypt.flipped = <<>>
    /\ Len(crypt.pdf_data) >= 2
    /\ crypt.encryption_result.ciphertext # crypt.pdf_data
    /\ crypt.decrypted.ok

\* C12: decrypt_pdf, given a buffer in which one bit of the ciphertext was
\* flipped, returns no bytes: it raises its "Decryption failed" exception.
C12_TamperedCiphertextRejected ==
    (crypt.pc = "done" /\ crypt.flipped # <<>>) =>
        /\ ~crypt.decrypted.ok
        /\ crypt.decrypted.error = "Decryption failed"

C12_Witness ==
    /\ crypt.pc = "done"
    /\ crypt.flipped # <<>>
    /\ crypt.encrypted_data # Serialize(crypt.encryption_result)
    /\ ~crypt.decrypted.ok

\* ---- share_file and the cipher
\* bytes.fromhex: the bytes of a string of hexadecimal digit pairs.
RECURSIVE FromHex(_)
FromHex(hex) ==
    IF Len(hex) < 2 THEN <<>>
    ELSE <<hex[1] * 16 + hex[2]>> \o FromHex(SubSeq(hex, 3, Len(hex)))

\* The objects of the blob store that a locator names.
BlobsAt(locator) == {b \in blobs : <<"secure_pdfs", b.id>> = locator}

\* C13: for every document in the ledger, the blob store holds one object at
\* the document's cloudinary_url, and decrypt_pdf of that object with the
\* bytes of the document's encryption_key returns the bytes of the file the
\* document is about.
C13_StoredKeyOpensStoredBlob ==
    \A i \in 1..Len(ledger) :
        /\ Cardinality(BlobsAt(ledger[i].cloudinary_url)) = 1
        /\ \A b \in BlobsAt(ledger[i].cloudinary_url) :
              LET plain == DecryptPdf(b.data, FromHex(ledger[i].encryption_key))
              IN plain.ok /\ plain.data = FileBytes(ledger[i].original_path)

C13_Witness ==
    \E w \in Windows :
        /\ out[w].accepted
        /\ Len(ledger) > EarlierShares
        /\ Cardinality(BlobsAt(out[w].locator)) = 1
        /\ \E b \in blobs, i \in 1..Len(ledger) :
              /\ ledger[i].id # out[w].inv
              /\ b \in BlobsAt(out[w].locator)
              /\ ~DecryptPdf(b.data, FromHex(ledger[i].encryption_key)).ok

\* ---- share_file: validation, order of the steps, success, orphans
FileFaultNames == {"missing", "notfile", "unreadable"}

\* C14: share_file on a path that does not exist, is not a regular file or
\* cannot be read fails in its validation, before anything else is done: no
\* encryption is run, no staging file made, no upload made, no document
\* written.
C14_BadPathFailsInValidation ==
    \A w \in Windows :
        out[w].faults \cap FileFaultNames # {} =>
            /\ out[w].ret = "False"
            /\ out[w].stages = <<"validate">>
            /\ out[w].msg \in {ValidationError(fs) : fs \in FileFaultNames}
            /\ out[w].inv \notin tmpfiles
            /\ out[w].name = <<>>
            /\ ledger = out[w].before

\* The first place of stage in the stages entered, 0 if it was not.
FirstAt(o, stage) ==
    IF Entered(o, stage)
    THEN CHOOSE i \in 1..Len(o.stages) :
            /\ o.stages[i] = stage
            /\ \A j \in 1..(i - 1) : o.stages[j] # stage
    ELSE 0

\* C15: in every run of share_file the upload starts only after the
\* encryption has returned, the record is built and the ledger add started
\* only after the upload has returned a locator, and the cloudinary_url of
\* the document written is the locator that this run's upload returned,
\* for the name this run generated.
C15_StepsFollowDataDependencies ==
    \A w \in Windows :
        LET o == out[w] IN
        /\ Entered(o, "upload") =>
              /\ 0 < FirstAt(o, "encrypt")
              /\ FirstAt(o, "encrypt") < FirstAt(o, "upload")
              /\ "unreadable" \notin o.faults
        /\ Entered(o, "build") =>
              /\ FirstAt(o, "upload") < FirstAt(o, "build")
              /\ o.faults \cap UploadFaultNames = {}
              /\ o.locator = <<"secure_pdfs", o.name>>
        /\ Entered(o, "ledger_add") =>
              FirstAt(o, "build") < FirstAt(o, "ledger_add")
        /\ pc[w] = "writing" => loc[w].share_data.cloudinary_url = o.locator
        /\ \A i \in 1..Len(DocsOf(o.inv)) :
              /\ DocsOf(o.inv)[i].cloudinary_url = o.locator
              /\ DocsOf(o.inv)[i].secure_filename = o.name

C15_Witness ==
    \E w \in Windows :
        /\ out[w].accepted
        /\ out[w].stages = StageOrder
        /\ DocsOf(out[w].inv) # <<>>
        /\ out[w].locator # <<>>

\* C16: whenever share_file has shown the success message and accepted the
\* dialog, the ledger holds a document of that invocation; and a share_file
\* that failed has not accepted the dialog, which stays open.
C16_SuccessOnlyAfterLedgerWrite ==
    \A w \in Windows :
        /\ (out[w].accepted \/ out[w].box = "information") =>
              /\ out[w].accepted /\ out[w].box = "information"
              /\ out[w].ret = "None"
              /\ Entered(out[w], "ledger_add")
              /\ Len(DocsOf(out[w].inv)) = 1
        /\ out[w].ret = "False" =>
              /\ ~out[w].accepted
              /\ pc[w] = "dialog"
              /\ dlg[w] # NoDialog

C16_Witness ==
    \E w \in Windows :
        /\ out[w].accepted
        /\ out[w].box = "information"
        /\ pc[w] = "reload"
        /\ Len(DocsOf(out[w].inv)) = 1
        /\ Len(ledger) = Len(out[w].before) + 1

\* C19: the ledger holds one document per shared file: sharing a file again
\* by the same owner adds no second document for it.
C19_OneRecordPerSharedFile ==
    \A i, j \in 1..Len(ledger) :
        (/\ ledger[i].owner_id = ledger[j].owner_id
         /\ ledger[i].original_path = ledger[j].original_path) => i = j

LedgerFaultNames == {"db_missing", "write_raises"}

\* C20: when the ledger step of share_file fails after the upload succeeded
\* (no database handle, or the add raises), the call fails and the uploaded
\* object stays: the blob store holds it at the locator the upload returned,
\* and no document of the ledger names that locator.
C20_LedgerFailureOrphansBlob ==
    \A w \in Windows :
        out[w].faults \cap LedgerFaultNames # {} =>
            /\ out[w].ret = "False"
            /\ out[w].locator # <<>>
            /\ Cardinality(BlobsAt(out[w].locator)) = 1
            /\ \A b \in BlobsAt(out[w].locator) :
                  b.data = EncryptedData(dlg[w].file_path, out[w].inv)
            /\ \A i \in 1..Len(ledger) :
                  ledger[i].cloudinary_url # out[w].locator

C20_Witness ==
    \E w \in Windows :
        /\ "write_raises" \in out[w].faults
        /\ out[w].ret = "False"
        /\ BlobsAt(out[w].locator) # {}
        /\ Cardinality(blobs) = Len(ledger) + 1

IsPrefix(s, t) == Len(s) <= Len(t) /\ SubSeq(t, 1, Len(s)) = s

\* C18: no step of the program (share_file, load_file_access_records,
\* delete_selected_record) rewrites a document of the ledger: after every
\* step each document is still there under its id, with the same owner_id,
\* and with access_records and share_chain that begin with what they were.
C18_RecordsOnlyGrow ==
    [][\A i \in 1..Len(ledger) :
          \E j \in 1..Len(ledger') :
              /\ ledger'[j].id = ledger[i].id
              /\ ledger'[j].owner_id = ledger[i].owner_id
              /\ IsPrefix(ledger[i].access_records, ledger'[j].access_records)
              /\ IsPrefix(ledger[i].share_chain, ledger'[j].share_chain)]_vars

C18_Witness ==
    \E w \in Windows :
        /\ Len(ledger) > EarlierShares
        /\ deletes > 0
        /\ loadres[w].status = "edited"
        /\ Len(rows[w]) < 2 * Len(Query(ledger, user_id[w]))
        /\ \E i \in 1..Len(ledger) : ledger[i] = EarlierLedger[1]

\* ---- share_file called again
\* The calls of share_file that have returned in the dialog of instance w.
ReturnedAttempts(w) ==
    IF out[w].ret = "running" THEN out[w].prior ELSE Attempts(out[w])

LedgerFailed(a) == a.failed = "ledger"

\* The objects of the blob store that no document of the ledger names.
Orphans ==
    {b \in blobs :
        \A i \in 1..Len(ledger) :
            ledger[i].cloudinary_url # <<"secure_pdfs", b.id>>}

\* The objects stored under the names that the attempts in s made.
BlobsOf(s) == {b \in blobs : \E i \in 1..Len(s) : s[i].name = b.id}

\* C21: every call of share_file that fails at the ledger step (no database
\* handle, or the add raises) has uploaded an object of its own under a name
\* of its own, so after the calls of one dialog the objects they stored that
\* no document names are as many as the calls that failed at the ledger step,
\* and after a call that succeeded there is one more object of theirs, named
\* by that call's document and by no other.
C21_RetryAfterLedgerFailureReuploads ==
    \A w \in Windows :
        LET s == ReturnedAttempts(w)
            failed == {i \in 1..Len(s) : LedgerFailed(s[i])}
        IN
        /\ \A i, j \in failed : s[i].name = s[j].name => i = j
        /\ \A i \in failed : Cardinality(BlobsAt(s[i].locator)) = 1
        /\ Cardinality(BlobsOf(s) \cap Orphans) = Cardinality(failed)
        /\ out[w].accepted =>
              /\ Cardinality(BlobsOf(s) \ Orphans) = 1
              /\ BlobsOf(s) \ Orphans = BlobsAt(out[w].locator)
              /\ Cardinality({i \in 1..Len(ledger) :
                      ledger[i].cloudinary_url = out[w].locator}) = 1

C21_Witness ==
    \E w \in Windows :
        /\ out[w].accepted
        /\ out[w].prior # <<>>
        /\ \A i \in 1..Len(out[w].prior) : LedgerFailed(out[w].prior[i])
        /\ Cardinality(BlobsOf(ReturnedAttempts(w)) \cap Orphans)
              = Len(out[w].prior)
        /\ Cardinality(blobs) = Len(ledger) + Len(out[w].prior)

UploadFailedAttempt(a) == a.failed = "upload"

\* The documents of the ledger that the attempts in s wrote.
DocsOfAttempts(s) ==
    SelectSeq(ledger, LAMBDA d : \E i \in 1..Len(s) : s[i].inv = d.id)

\* C22: a call of share_file that fails at the upload leaves no document, so
\* calling it again is safe: when calls that failed at the upload are
\* followed, in the same dialog, by a call that succeeds, the ledger holds
\* one document of all these calls, that of the last, and is otherwise what
\* it was before.
C22_RetryAfterUploadFailureIsSafe ==
    \A w \in Windows :
        LET s == ReturnedAttempts(w) IN
        /\ \A i \in 1..Len(s) :
              UploadFailedAttempt(s[i]) =>
                  /\ DocsOf(s[i].inv) = <<>>
                  /\ \A j \in 1..Len(ledger) :
                        ledger[j].secure_filename # s[i].name
        /\ (/\ out[w].accepted
            /\ \A i \in 1..Len(out[w].prior) :
                  UploadFailedAttempt(out[w].prior[i])) =>
              /\ Len(DocsOfAttempts(s)) = 1
              /\ DocsOfAttempts(s) = DocsOf(out[w].inv)
              /\ Len(ledger) = Len(out[w].before) + 1
              /\ \A u \in Users :
                    Query(SelectSeq(ledger, LAMBDA d : d.id # out[w].inv), u)
                        = Query(out[w].before, u)

C22_Witness ==
    \E w \in Windows :
        /\ out[w].accepted
        /\ out[w].prior # <<>>
        /\ \A i \in 1..Len(out[w].prior) :
              UploadFailedAttempt(out[w].prior[i])
        /\ out[w].prior[1].locator = <<>>
        /\ Len(ledger) = EarlierShares + 1
        /\ shares = Len(out[w].prior) + 1

\* ---- two calls of share_file at once
\* The document doc holds its one upload event and its one share event.
HoldsBothEvents(doc) ==
    /\ Len(doc.access_records) = 1
    /\ doc.access_records[1].action = "upload"
    /\ Len(doc.share_chain) = 1

\* The table shows the upload event and the share event of document doc.
ShowsBothEvents(table, doc) ==
    /\ \E r \in Range(table) :
          /\ r.record_id = doc.id
          /\ r.action = "upload"
          /\ r.time = doc.access_records[1].time
    /\ \E r \in Range(table) :
          /\ r.record_id = doc.id
          /\ r.action = "share"
          /\ r.user_name = <<"Shared with: ", doc.share_chain[1].shared_with>>

\* Instance w takes a step of load_file_access_records that succeeds.
LoadedOk(w) ==
    /\ pc[w] \in {"main", "reload"}
    /\ pc'[w] = "main"
    /\ loadres'[w].status = "ok"
    /\ <<rows[w], loadres[w], out[w], pc[w]>>
          # <<rows'[w], loadres'[w], out'[w], pc'[w]>>

\* C23: however two calls of share_file by one user interleave, nothing is
\* lost or overwritten in the ledger: when both have succeeded the ledger
\* holds a document of each, with its upload event and its share event, next
\* to the documents it held; no later step takes a document or an event away;
\* and every later load that succeeds shows both events of every document of
\* the user, so all four of these.
C23_ConcurrentSharesLoseNothing ==
    /\ [](\A v, w \in Windows :
            (v # w /\ out[v].accepted /\ out[w].accepted) =>
                /\ out[v].inv # out[w].inv
                /\ Len(DocsOf(out[v].inv)) = 1
                /\ Len(DocsOf(out[w].inv)) = 1
                /\ HoldsBothEvents(DocsOf(out[v].inv)[1])
                /\ HoldsBothEvents(DocsOf(out[w].inv)[1])
                /\ \A i \in 1..Len(out[v].before) :
                      out[v].before[i] \in Range(ledger))
    /\ [][/\ \A d \in Range(ledger) : d \in Range(ledger')
          /\ \A w \in Windows :
                LoadedOk(w) =>
                    /\ Len(rows'[w]) = 2 * Len(Query(ledger', user_id[w]))
                    /\ \A d \in Range(Query(ledger', user_id[w])) :
                          ShowsBothEvents(rows'[w], d)]_vars

C23_Witness ==
    \E v, w \in Windows :
        /\ v # w
        /\ out[v].accepted
        /\ out[v].inv = EarlierShares + 2
        /\ out[v].before = EarlierLedger
        /\ Len(ledger) = EarlierShares + 2
        /\ pc[w] = "main"
        /\ loadres[w].status = "ok"
        /\ Len(rows[w]) = 2 * Len(ledger)
        /\ \A d \in Range(ledger) : ShowsBothEvents(rows[w], d)

\* ---- the rows of the upload events
\* C24: in the table of a load that succeeded, the row of the upload event
\* of every document names, as its user, the user that the event stores (the
\* owner who uploaded), not the placeholder "Unknown".
C24_UploadRowNamesTheUploader ==
    \A w \in Windows :
        loadres[w].status = "ok" =>
            \A d \in Range(loadres[w].tracked_files) :
                \A r \in Range(rows[w]) :
                    (r.record_id = d.id /\ r.action = "upload") =>
                        /\ r.user_name = d.access_records[1].user_id
                        /\ r.user_name # "Unknown"

\* ---- share_file without a recipient
AllWhitespace(text) == \A i \in 1..Len(text) : text[i] \in Whitespace

\* Instance w takes the step of share_file that ends at the recipient check.
WarnedNoRecipient(w) ==
    /\ out'[w].box = "warning"
    /\ out'[w] # out[w]

\* C25: share_file with a recipient text that is empty or all whitespace
\* shows its warning and returns: it enters no stage (no encryption, no
\* staging file, no upload, no lookup, no ledger write), leaves the ledger,
\* the blob store, the staging files and its locals as they were, and the
\* dialog stays open, neither accepted nor rejected.
C25_NoRecipientNoSideEffect ==
    /\ [](\A w \in Windows :
            /\ (out[w].input # NoInput /\ AllWhitespace(out[w].input.text)) =>
                  /\ out[w].box = "warning"
                  /\ out[w].ret = "None"
                  /\ out[w].inv = 0
                  /\ out[w].stages = <<>>
                  /\ out[w].name = <<>> /\ out[w].locator = <<>>
                  /\ out[w].geo.kind = "none"
                  /\ ~out[w].accepted
                  /\ ledger = out[w].before
                  /\ pc[w] = "dialog" /\ dlg[w] # NoDialog
                  /\ loc[w] = NoLocals
            /\ out[w].box = "warning" => AllWhitespace(out[w].input.text))
    /\ [][\A w \in Windows :
            WarnedNoRecipient(w) =>
                UNCHANGED <<ledger, blobs, tmpfiles, now, shares, pc, dlg,
                            loc, rows, loadres>>]_vars

C25_Witness ==
    \E w \in Windows :
        /\ out[w].box = "warning"
        /\ out[w].input.text = <<" ">>
        /\ out[w].prior # <<>>
        /\ pc[w] = "dialog"
        /\ blobs # EarlierBlobs

\* ---- delete_selected_record
\* C26: delete_selected_record, confirmed, takes one row off the table and
\* leaves the ledger and the blob store as they are; so a load that succeeds
\* after it shows again every event of the user's documents, the one whose
\* row was deleted among them.
C26_DeleteLeavesLedgerAlone ==
    /\ [](\A w \in Windows :
            (loadres[w].status = "ok" /\ pc[w] = "main") =>
                /\ Len(rows[w]) = EventCount(Query(ledger, user_id[w]))
                /\ \A d \in Range(Query(ledger, user_id[w])) :
                      ShowsBothEvents(rows[w], d))
    /\ [][deletes' # deletes =>
            /\ ledger' = ledger
            /\ blobs' = blobs
            /\ \E w \in Windows :
                  /\ Len(rows'[w]) = Len(rows[w]) - 1
                  /\ loadres'[w].tracked_files = loadres[w].tracked_files]_vars

C26_Witness ==
    \E w \in Windows :
        /\ deletes > 0
        /\ loadres[w].status = "ok"
        /\ pc[w] = "main"
        /\ rows[w] # <<>>
        /\ Len(rows[w]) = EventCount(Query(ledger, user_id[w]))

\* ---- load_file_access_records failing
\* C27: when load_file_access_records fails, for want of the database handle
\* or because the query raises, the table ends empty, whatever an earlier
\* load had shown, and the ledger is as it was.
C27_FailedLoadLeavesTableEmpty ==
    /\ [](\A w \in Windows :
            loadres[w].status = "error" =>
                /\ rows[w] = <<>>
                /\ loadres[w].error = LoadError(db[w], FALSE))
    /\ [][\A w \in Windows :
            (loadres'[w].status = "error" /\ loadres'[w] # loadres[w]) =>
                /\ rows'[w] = <<>>
                /\ ledger' = ledger
                /\ blobs' = blobs]_vars

C27_Witness ==
    \E w \in Windows :
        /\ loadres[w].status = "error"
        /\ loadres[w].error = "Failed to load records from database"
        /\ db[w]
        /\ Query(ledger, user_id[w]) # <<>>
        /\ rows[w] = <<>>

\* ---- SecurePDFViewer
\* C28: in a SecurePDFViewer of a document with at least one page, after
\* any clicks and resize events the page number is one of the document's
\* (0 to total_pages - 1), the page shown is that page, Previous is enabled
\* exactly when the page is not the first and Next exactly when it is not
\* the last; previous_page at page 0 and next_page at the last page leave
\* the page number as it is, and elsewhere they move it by one.
C28_PageStaysWithinDocument ==
    /\ [](viewer.pc = "open" /\ viewer.total_pages >= 1 =>
            /\ 0 <= viewer.current_page
            /\ viewer.current_page <= viewer.total_pages - 1
            /\ viewer.shown # None
            /\ viewer.shown[1] = viewer.current_page
            /\ viewer.prev_enabled <=> viewer.current_page > 0
            /\ viewer.next_enabled <=>
                  viewer.current_page < viewer.total_pages - 1)
    /\ [][(viewer.pc = "open" /\ viewer.total_pages >= 1
             /\ viewer'.events # viewer.events) =>
            viewer'.current_page =
                CASE viewer'.last = "previous_page" ->
                        IF viewer.current_page = 0 THEN 0
                        ELSE viewer.current_page - 1
                  [] viewer'.last = "next_page" ->
                        IF viewer.current_page = viewer.total_pages - 1
                        THEN viewer.current_page
                        ELSE viewer.current_page + 1
                  [] OTHER -> viewer.current_page]_vars

C28_Witness ==
    /\ viewer.pc = "open"
    /\ viewer.total_pages >= 2
    /\ viewer.last = "next_page"
    /\ viewer.from = viewer.total_pages - 1
    /\ viewer.current_page = viewer.total_pages - 1
    /\ ~viewer.next_enabled /\ viewer.prev_enabled
    /\ viewer.shown[2] = "maximized"

\* ---- SimpleChat
\* The roles of a history alternate, from the assistant's greeting on.
Alternates(history) ==
    \A i \in 1..Len(history) :
        history[i].role = IF i % 2 = 1 THEN "assistant" ELSE "user"

\* C29: every call of get_ai_answer adds two entries to the end of
\* conversation_history, the user's message and then an assistant's entry
\* (the formatted answer, or the apology when the API raised), and changes
\* nothing before them; so the history of a chatbot that has only been
\* constructed and asked n times has 1 + 2n entries, the assistant's and the
\* user's in turn.
C29_EveryAnswerAppendsTwoEntries ==
    /\ [](chat.pc = "open" /\ chat.fresh =>
            /\ Len(chat.history) = 1 + 2 * chat.calls
            /\ chat.history[1] = NewHistory[1]
            /\ Alternates(chat.history))
    /\ [][(chat.pc = "open" /\ chat'.calls = chat.calls + 1) =>
            /\ Len(chat'.history) = Len(chat.history) + 2
            /\ SubSeq(chat'.history, 1, Len(chat.history)) = chat.history
            /\ chat'.history[Len(chat.history) + 1]
                  = [role |-> "user", content |-> chat'.last.message]
            /\ chat'.history[Len(chat.history) + 2].role = "assistant"]_vars

C29_Witness ==
    /\ chat.pc = "open"
    /\ chat.fresh
    /\ chat.calls = 2
    /\ Len(chat.history) = 5
    /\ \E i, j \in 1..Len(chat.history) :
          /\ chat.history[i].content[1] = "I'm sorry, I encountered an error: "
          /\ chat.history[j].content = <<"w30", "\n", "w29", " ", "ok">>

\* ---- AIChatWidget: save and load
\* C30: after save_chat_history and then load_chat_history of the file it
\* wrote, the chatbot's conversation_history is the history that was saved.
C30_SaveLoadRoundTrip ==
    (/\ chat.pc = "open"
     /\ chat.last.op = "load_chat_history"
     /\ chat.last.ok) =>
        chat.history = JsonLoad(chat.files[chat.last.file_path])

====
